---- MODULE Spec2Model ----
(***************************************************************************)
(* Model of the plugin lifecycle manager of pkg/plugins/manager/store.go:   *)
(* PluginManager.Add (install / update), PluginManager.Remove (uninstall)   *)
(* and the read operations, together with the collaborators they call       *)
(* (registry, repository client, plugin filesystem, loader).                *)
(*                                                                         *)
(* A call of Add or Remove is a small process: one step per collaborator    *)
(* call, each step carrying the local computation that follows the call up  *)
(* to the next collaborator call or the return.  Every call keeps a log of  *)
(* the collaborator calls it has made.                                      *)
(***************************************************************************)
EXTENDS Naturals, Sequences, FiniteSets, TLC

(***************************************************************************)
(* Bounds of the model.                                                    *)
(***************************************************************************)
MaxTokenLen == 2
MaxDeps == 2

(***************************************************************************)
(* Version strings.  A version string is a sequence of lexemes: a concrete  *)
(* version such as "1.0.0", the comparison operator ">=", the separators    *)
(* "," and "||" of a constraint expression, or "!" for any text that is     *)
(* neither.  The empty sequence is the empty string.                       *)
(***************************************************************************)
Versions == {"1.0.0", "2.0.0"}
NonVersionLexemes == {">=", ",", "||", "!"}
Lexemes == Versions \cup NonVersionLexemes
Tokens == UNION {[1..n -> Lexemes] : n \in 0..MaxTokenLen}
EmptyString == <<>>
ConcreteVersions == {<<v>> : v \in Versions}

RECURSIVE Split(_, _)
Split(s, sep) ==
    IF \A i \in 1..Len(s) : s[i] # sep
    THEN <<s>>
    ELSE LET i == CHOOSE k \in 1..Len(s) :
                      s[k] = sep /\ \A j \in 1..(k - 1) : s[j] # sep
         IN  <<SubSeq(s, 1, i - 1)>> \o Split(SubSeq(s, i + 1, Len(s)), sep)

\* one comparison of a constraint: an optional operator, then a version
parseConstraint(part) ==
    \/ Len(part) = 1 /\ part[1] \notin NonVersionLexemes
    \/ Len(part) = 2 /\ part[1] = ">=" /\ part[2] \notin NonVersionLexemes

\* semver.NewConstraint succeeds: every "||" alternative is a ","-separated
\* list of comparisons, each of which parses
NewConstraint(c) ==
    LET ors == Split(c, "||")
    IN  \A k \in 1..Len(ors) :
            LET cs == Split(ors[k], ",")
            IN  \A i \in 1..Len(cs) : parseConstraint(cs[i])

isSemVerExpr_AcceptAll(version) == TRUE

isSemVerExpr(version) ==
    IF version = EmptyString THEN FALSE ELSE NewConstraint(version)

(***************************************************************************)
(* Paths.  A path is a list of segments, absolute or relative.              *)
(***************************************************************************)
Path(abs, segs) == [abs |-> abs, segs |-> segs]
NoPath == Path(FALSE, <<>>)

RECURSIVE CleanSegs(_, _, _)
CleanSegs(abs, todo, out) ==
    IF todo = <<>> THEN out
    ELSE LET s == Head(todo)
             rest == Tail(todo)
         IN  IF s = "." THEN CleanSegs(abs, rest, out)
             ELSE IF s = ".."
                  THEN IF out # <<>> /\ out[Len(out)] # ".."
                       THEN CleanSegs(abs, rest, SubSeq(out, 1, Len(out) - 1))
                       ELSE IF abs THEN CleanSegs(abs, rest, out)
                            ELSE CleanSegs(abs, rest, Append(out, ".."))
                  ELSE CleanSegs(abs, rest, Append(out, s))

Clean(p) == Path(p.abs, CleanSegs(p.abs, p.segs, <<>>))

RECURSIVE CommonLen(_, _)
CommonLen(a, b) ==
    IF a = <<>> \/ b = <<>> THEN 0
    ELSE IF Head(a) = Head(b) THEN 1 + CommonLen(Tail(a), Tail(b)) ELSE 0

\* filepath.Rel(basepath, targpath): [err, segs], segs the relative path
Rel(basepath, targpath) ==
    LET base == Clean(basepath)
        targ == Clean(targpath)
        n    == CommonLen(base.segs, targ.segs)
        brest == SubSeq(base.segs, n + 1, Len(base.segs))
        trest == SubSeq(targ.segs, n + 1, Len(targ.segs))
    IN  IF targ = base THEN [err |-> FALSE, segs |-> <<".">>]
        ELSE IF base.abs # targ.abs THEN [err |-> TRUE, segs |-> <<>>]
        ELSE IF brest # <<>> /\ brest[1] = ".." THEN [err |-> TRUE, segs |-> <<>>]
        ELSE [err |-> FALSE, segs |-> [i \in 1..Len(brest) |-> ".."] \o trest]

\* strings.HasPrefix(path, ".." + separator): the first segment is exactly
\* ".." and a separator follows it, that is, another segment follows
HasParentPrefix(segs) == Len(segs) >= 2 /\ segs[1] = ".."

IsPrefixPath(d, p) ==
    /\ d.abs = p.abs
    /\ Len(d.segs) <= Len(p.segs)
    /\ SubSeq(p.segs, 1, Len(d.segs)) = d.segs

(***************************************************************************)
(* Plugins, the managed root and the directories of the model.             *)
(***************************************************************************)
CoreIDs == {"core"}
ExtIDs == {"p", "d", "e"}
IDs == CoreIDs \cup ExtIDs

PluginsPath == Path(TRUE, <<"var", "plugins">>)
PathFor(pluginID) == Path(TRUE, PluginsPath.segs \o <<pluginID>>)
CoreDir(pluginID) == Path(TRUE, <<"usr", "share", pluginID>>)

\* where an external plugin registered at start-up may live
InitDirs(pluginID) ==
    { PathFor(pluginID),
      Path(TRUE, <<"var">>),
      Path(TRUE, <<"var", "other">>) }

Dirs == UNION {InitDirs(i) : i \in ExtIDs} \cup {PathFor(i) : i \in IDs}
            \cup {CoreDir(i) : i \in CoreIDs}

PluginTypes == {"datasource", "panel", "app"}
TypeOf(pluginID) ==
    IF pluginID = "p" THEN "panel" ELSE IF pluginID = "d" THEN "app" ELSE "datasource"

NewPlugin(pluginID, version, dir, class) ==
    [ID |-> pluginID, Version |-> version, PluginDir |-> dir,
     Class |-> class, Type |-> TypeOf(pluginID), Decommissioned |-> FALSE]
NoPlugin == [ID |-> "", Version |-> EmptyString, PluginDir |-> NoPath,
             Class |-> "", Type |-> "", Decommissioned |-> FALSE]
NoDir == [ID |-> "", Version |-> EmptyString]

IsExternalPlugin(p) == p.Class = "external"
IsDecommissioned(p) == p.Decommissioned

(***************************************************************************)
(* State.                                                                  *)
(*   registry  the entries of the plugin registry                          *)
(*   disk      what each directory holds: the plugin extracted there, or   *)
(*             NoDir when the directory does not exist                     *)
(*   calls     the Add / Remove call of each caller                        *)
(***************************************************************************)
VARIABLES registry, disk, calls
vars == <<registry, disk, calls>>

Callers == {"c1", "c2"}

(***************************************************************************)
(* Results, collaborator replies and the call log.                         *)
(***************************************************************************)
Result(err, pluginID, dir) ==
    [err |-> err, PluginID |-> pluginID, ExistingPluginDir |-> dir]
Err(name) == Result(name, "", NoPath)
NoResult == Err("")
Nil == Err("nil")
ErrInvalidPluginVersionFormat == Err("ErrInvalidPluginVersionFormat")
ErrInstallCorePlugin == Err("ErrInstallCorePlugin")
ErrUninstallCorePlugin == Err("ErrUninstallCorePlugin")
ErrPluginNotInstalled == Err("ErrPluginNotInstalled")
ErrUninstallOutsideOfPluginDir == Err("ErrUninstallOutsideOfPluginDir")
DuplicateError(pluginID, dir) == Result("DuplicateError", pluginID, dir)
ErrNoUpdateOptions(pluginID) == Result("could not determine update options", pluginID, NoPath)
ErrDepDownload(depID) == Result("failed to download plugin from repository", depID, NoPath)
ErrRepo == Err("repository error")
ErrFs == Err("filesystem error")
ErrUnregister == Err("unregister error")
ErrLoad == Err("load error")

Ev(ev, pluginID, version, dir, paths, ok) ==
    [ev |-> ev, id |-> pluginID, version |-> version, dir |-> dir,
     paths |-> paths, ok |-> ok]

Dep(depID, version) == [ID |-> depID, Version |-> version]
\* the dependencies a plugin may declare: another external plugin (a plugin
\* does not declare itself), at the version its manifest names
DepsOf(pluginID) ==
    {Dep(i, <<"1.0.0">>) : i \in ExtIDs \ {pluginID}}
DepLists(pluginID) == UNION {[1..n -> DepsOf(pluginID)] : n \in 0..MaxDeps}
Archive(version, deps) == [Version |-> version, Dependencies |-> deps]
NoArchive == Archive(EmptyString, <<>>)
\* the archives the repository may return for a plugin
Archives(pluginID) ==
    {Archive(v, ds) : v \in ConcreteVersions, ds \in DepLists(pluginID)}

DlOpts(version, url) == [Version |-> version, PluginZipURL |-> url]
NoDlOpts == DlOpts(EmptyString, "")
DlOptions ==
    {DlOpts(v, u) : v \in ConcreteVersions \cup {EmptyString}, u \in {"", "url"}}

\* what pluginFs.Add returns: the extraction path and the dependencies the
\* archive declares
Extracted(path, deps) == [Path |-> path, Dependencies |-> deps]
NoExtracted == Extracted(NoPath, <<>>)

IdleCall ==
    [op |-> "none", pc |-> "idle", pluginID |-> "", version |-> EmptyString,
     plugin |-> NoPlugin, rmPlugin |-> NoPlugin, dlOpts |-> NoDlOpts,
     archive |-> NoArchive, extracted |-> NoExtracted, deps |-> <<>>,
     pathsToScan |-> <<>>, loaded |-> <<>>, result |-> NoResult, log |-> <<>>]

(***************************************************************************)
(* Registry reads of the manager.                                          *)
(***************************************************************************)
\* pluginRegistry.Plugin: the entry registered under the id
registryPlugin(reg, pluginID) ==
    IF \E e \in reg : e.ID = pluginID
    THEN CHOOSE e \in reg : e.ID = pluginID
    ELSE NoPlugin

plugin_KeepDecommissioned(reg, pluginID) == registryPlugin(reg, pluginID)

\* m.plugin: the entry when it exists and is not decommissioned
plugin(reg, pluginID) ==
    LET p == registryPlugin(reg, pluginID)
    IN  IF p = NoPlugin \/ IsDecommissioned(p) THEN NoPlugin ELSE p

availablePlugins_All(reg) == reg

availablePlugins(reg) == {p \in reg : ~IsDecommissioned(p)}

registeredPlugins(reg) == {p.ID : p \in reg}

ToDTO(p) == [ID |-> p.ID, Version |-> p.Version, Type |-> p.Type,
             PluginDir |-> p.PluginDir, Class |-> p.Class]

\* PluginManager.Plugin: (dto, found)
Plugin(reg, pluginID) ==
    LET p == plugin(reg, pluginID)
    IN  IF p = NoPlugin THEN [dto |-> ToDTO(NoPlugin), found |-> FALSE]
        ELSE [dto |-> ToDTO(p), found |-> TRUE]

\* PluginManager.Plugins: an empty type list means every type
Plugins(reg, pluginTypes) ==
    LET requestedTypes == IF pluginTypes = {} THEN PluginTypes ELSE pluginTypes
    IN  {ToDTO(p) : p \in {q \in availablePlugins(reg) : q.Type \in requestedTypes}}

(***************************************************************************)
(* Decisions of Add and Remove between collaborator calls.  Each returns    *)
(* the error to return, or NoResult to go on.                              *)
(***************************************************************************)
\* Add, the version format check
AddValidate(version) ==
    IF version # EmptyString /\ ~isSemVerExpr(version)
    THEN ErrInvalidPluginVersionFormat
    ELSE NoResult

AddExisting_NoCoreCheck(p, version) ==
    IF p.Version = version THEN DuplicateError(p.ID, p.PluginDir) ELSE NoResult

\* Add, the plugin exists: core plugins and the installed version are refused
AddExisting(p, version) ==
    IF ~IsExternalPlugin(p) THEN ErrInstallCorePlugin
    ELSE IF p.Version = version THEN DuplicateError(p.ID, p.PluginDir)
    ELSE NoResult

AddResolved_NoDuplicateCheck(p, pluginID, dlOpts) ==
    IF dlOpts.PluginZipURL = "" /\ dlOpts.Version = EmptyString
    THEN ErrNoUpdateOptions(pluginID)
    ELSE NoResult

\* Add, the download options are known
AddResolved(p, pluginID, dlOpts) ==
    IF dlOpts.Version = p.Version THEN DuplicateError(p.ID, p.PluginDir)
    ELSE IF dlOpts.PluginZipURL = "" /\ dlOpts.Version = EmptyString
         THEN ErrNoUpdateOptions(pluginID)
         ELSE NoResult

RemoveCheck_NoCoreCheck(p) ==
    IF p = NoPlugin THEN ErrPluginNotInstalled
    ELSE LET path == Rel(PluginsPath, p.PluginDir)
         IN  IF path.err \/ HasParentPrefix(path.segs)
             THEN ErrUninstallOutsideOfPluginDir
             ELSE NoResult

RemoveCheck_NoLookupCheck(p) ==
    IF ~IsExternalPlugin(p) THEN ErrUninstallCorePlugin
    ELSE LET path == Rel(PluginsPath, p.PluginDir)
         IN  IF path.err \/ HasParentPrefix(path.segs)
             THEN ErrUninstallOutsideOfPluginDir
             ELSE NoResult

\* Remove, before anything is changed; p is the result of m.plugin
RemoveCheck(p) ==
    IF p = NoPlugin THEN ErrPluginNotInstalled
    ELSE IF ~IsExternalPlugin(p) THEN ErrUninstallCorePlugin
    ELSE LET path == Rel(PluginsPath, p.PluginDir)
         IN  IF path.err \/ HasParentPrefix(path.segs)
             THEN ErrUninstallOutsideOfPluginDir
             ELSE NoResult

AfterUnregister_Always(ok) == "rm_fs"

\* Remove, after unregisterAndStop: the directory is deleted only on success
AfterUnregister(ok) == IF ok THEN "rm_fs" ELSE "done"

ArchiveRequest_CallerVersion(p, pluginID, version, dlOpts) ==
    IF p # NoPlugin /\ dlOpts.PluginZipURL # ""
    THEN [byURL |-> TRUE, id |-> "", version |-> EmptyString]
    ELSE [byURL |-> FALSE, id |-> pluginID, version |-> version]

\* Add, the archive to fetch: [byURL, id, version]
ArchiveRequest(p, pluginID, version, dlOpts) ==
    IF p # NoPlugin
    THEN IF dlOpts.PluginZipURL # ""
         THEN [byURL |-> TRUE, id |-> "", version |-> EmptyString]
         ELSE [byURL |-> FALSE, id |-> pluginID, version |-> dlOpts.Version]
    ELSE [byURL |-> FALSE, id |-> pluginID, version |-> version]

UpdateFirstStep_FetchFirst == "fetch"

\* Add, update path: the existing installation is removed, then the new
\* archive is fetched
UpdateFirstStep == "remove"

AfterFsRemove_IgnoreError(op, ok) == IF op = "Remove" THEN "done" ELSE "fetch"

\* after pluginFs.Remove: Remove returns its result; Add returns the error,
\* or goes on to fetch the new archive
AfterFsRemove(op, ok) == IF ~ok \/ op = "Remove" THEN "done" ELSE "fetch"

RemainingDeps_Followed(rest, depArchive) == rest \o depArchive.Dependencies

\* Add, after a dependency is extracted: the dependencies that the
\* dependency declares itself are not followed
RemainingDeps(rest, depArchive) == rest

\* Add loads the extracted plugins as external plugins
AddPathToScan_First(pathsToScan, path) == <<path>> \o pathsToScan

\* Add: the extraction path of a dependency is added to the paths to load
AddPathToScan(pathsToScan, path) == Append(pathsToScan, path)

\* Add loads what it extracted as external plugins
LoadClass == "external"

InitPathsToScan_Empty(extractedPath) == <<>>

\* Add, the paths to load start with the primary plugin's extraction path
InitPathsToScan(extractedPath) == <<extractedPath>>

(***************************************************************************)
(* Collaborators.                                                          *)
(***************************************************************************)
\* pluginFs.Add: the archive is unpacked under the plugins root
fsAdd(dsk, archive, pluginID) ==
    [dsk EXCEPT ![PathFor(pluginID)] = [ID |-> pluginID, Version |-> archive.Version]]

\* pluginFs.Remove: the directory goes, with all it holds
fsRemove(dsk, dir) ==
    [d \in DOMAIN dsk |-> IF IsPrefixPath(dir, d) THEN NoDir ELSE dsk[d]]

\* unregisterAndStop, on success: the entry leaves the registry
unregister(reg, p) == {e \in reg : e.ID # p.ID}

\* unregisterAndStop, stopped half way: the entry stays, decommissioned
decommission(reg, p) ==
    {IF e.ID = p.ID THEN [e EXCEPT !.Decommissioned = TRUE] ELSE e : e \in reg}

IsFound(p) == p # NoPlugin

\* the Loader: the plugins whose manifests are found under the paths, in the
\* order of the paths, with the given class
loadPlugins(dsk, class, paths) ==
    SelectSeq([k \in 1..Len(paths) |->
                  IF dsk[paths[k]] # NoDir
                  THEN NewPlugin(dsk[paths[k]].ID, dsk[paths[k]].Version,
                                 paths[k], class)
                  ELSE NoPlugin],
              IsFound)

\* the registry is an index keyed by plugin id: registering a plugin puts it
\* under its id
register(reg, p) == {e \in reg : e.ID # p.ID} \cup {p}

(***************************************************************************)
(* Steps of a call.                                                        *)
(***************************************************************************)
Idle(c) == calls[c].pc = "idle"
InFlight(c) == calls[c].pc \notin {"idle", "done"}

Logged(c, e) == Append(calls[c].log, e)
LookupEv(pluginID) == Ev("registry.Plugin", pluginID, EmptyString, NoPath, <<>>, TRUE)

Return(call, result) == [call EXCEPT !.pc = "done", !.result = result]

\* Add is called: version check, lookup, and the checks on an existing plugin
AddStart(c, pluginID, version) ==
    /\ Idle(c)
    /\ LET call == [IdleCall EXCEPT !.op = "Add", !.pluginID = pluginID,
                                    !.version = version]
           p == plugin(registry, pluginID)
           looked == [call EXCEPT !.plugin = p, !.log = <<LookupEv(pluginID)>>]
       IN  calls' = [calls EXCEPT ![c] =
               IF AddValidate(version) # NoResult
               THEN Return(call, AddValidate(version))
               ELSE IF p = NoPlugin THEN [looked EXCEPT !.pc = "fetch"]
               ELSE IF AddExisting(p, version) # NoResult
                    THEN Return(looked, AddExisting(p, version))
                    ELSE [looked EXCEPT !.pc = "dlopts"]]
    /\ UNCHANGED <<registry, disk>>

\* Add, update path: GetPluginDownloadOptions and the checks on its answer
AddDlOpts(c) ==
    /\ calls[c].pc = "dlopts"
    /\ \E ok \in BOOLEAN, dl \in DlOptions :
         LET call == calls[c]
             e == Ev("GetPluginDownloadOptions", call.pluginID, call.version,
                     NoPath, <<>>, ok)
             got == [call EXCEPT !.log = Append(call.log, e), !.dlOpts = dl]
             r == AddResolved(call.plugin, call.pluginID, dl)
         IN  /\ ~ok => dl = NoDlOpts
             /\ calls' = [calls EXCEPT ![c] =
                   IF ~ok THEN Return(got, ErrRepo)
                   ELSE IF r # NoResult THEN Return(got, r)
                   ELSE IF UpdateFirstStep # "remove" THEN [got EXCEPT !.pc = "fetch"]
                   ELSE [got EXCEPT !.pc = "rm_lookup"]]
    /\ UNCHANGED <<registry, disk>>

\* Add, update path: m.Remove is called; its lookup and the checks made
\* before anything changes
AddRemove(c) ==
    /\ calls[c].pc = "rm_lookup"
    /\ LET call == calls[c]
           rp == plugin(registry, call.plugin.ID)
           rm == [call EXCEPT !.rmPlugin = rp,
                              !.log = Append(call.log, LookupEv(call.plugin.ID))]
       IN  calls' = [calls EXCEPT ![c] =
               IF RemoveCheck(rp) # NoResult
               THEN Return(rm, RemoveCheck(rp))
               ELSE [rm EXCEPT !.pc = "rm_unreg"]]
    /\ UNCHANGED <<registry, disk>>

\* Remove is called: lookup and the checks made before anything changes
RemoveStart(c, pluginID) ==
    /\ Idle(c)
    /\ LET rp == plugin(registry, pluginID)
           call == [IdleCall EXCEPT !.op = "Remove", !.pluginID = pluginID,
                                    !.rmPlugin = rp,
                                    !.log = <<LookupEv(pluginID)>>]
       IN  calls' = [calls EXCEPT ![c] =
               IF RemoveCheck(rp) # NoResult
               THEN Return(call, RemoveCheck(rp))
               ELSE [call EXCEPT !.pc = "rm_unreg"]]
    /\ UNCHANGED <<registry, disk>>

\* Remove: unregisterAndStop
Unregister(c) ==
    /\ calls[c].pc = "rm_unreg"
    /\ \E ok \in BOOLEAN, stopped \in BOOLEAN :
         LET call == calls[c]
             p == call.rmPlugin
             present == \E e \in registry : e.ID = p.ID
             e == Ev("unregisterAndStop", p.ID, EmptyString, NoPath, <<>>, ok)
             logged == [call EXCEPT !.log = Append(call.log, e)]
         IN  /\ ok => present /\ ~stopped
             /\ stopped => present
             /\ registry' = IF ok THEN unregister(registry, p)
                            ELSE IF stopped THEN decommission(registry, p)
                            ELSE registry
             /\ calls' = [calls EXCEPT ![c] =
                   IF AfterUnregister(ok) = "done"
                   THEN Return(logged, ErrUnregister)
                   ELSE [logged EXCEPT !.pc = AfterUnregister(ok)]]
    /\ UNCHANGED disk

\* Remove: pluginFs.Remove; Remove returns, and Add goes on to the fetch
FsRemove(c) ==
    /\ calls[c].pc = "rm_fs"
    /\ \E ok \in BOOLEAN :
         LET call == calls[c]
             dir == call.rmPlugin.PluginDir
             e == Ev("pluginFs.Remove", call.rmPlugin.ID, EmptyString, dir, <<>>, ok)
             logged == [call EXCEPT !.log = Append(call.log, e)]
         IN  /\ ok => disk[dir] # NoDir
             /\ disk' = IF ok THEN fsRemove(disk, dir) ELSE disk
             /\ calls' = [calls EXCEPT ![c] =
                   IF AfterFsRemove(call.op, ok) = "done"
                   THEN Return(logged, IF ok THEN Nil ELSE ErrFs)
                   ELSE [logged EXCEPT !.pc = AfterFsRemove(call.op, ok)]]
    /\ UNCHANGED registry

\* Add: GetPluginArchiveByURL or GetPluginArchive for the plugin itself
Fetch(c) ==
    /\ calls[c].pc = "fetch"
    /\ \E ok \in BOOLEAN, a \in Archives(calls[c].pluginID) \cup {NoArchive} :
         LET call == calls[c]
             req == ArchiveRequest(call.plugin, call.pluginID, call.version,
                                   call.dlOpts)
             e == Ev(IF req.byURL THEN "GetPluginArchiveByURL" ELSE "GetPluginArchive",
                     req.id, req.version, NoPath, <<>>, ok)
             logged == [call EXCEPT !.log = Append(call.log, e), !.archive = a]
         IN  /\ ok <=> a # NoArchive
             /\ calls' = [calls EXCEPT ![c] =
                   IF ~ok THEN Return(logged, ErrRepo)
                   ELSE [logged EXCEPT !.pc = "extract"]]
    /\ UNCHANGED <<registry, disk>>

\* Add: pluginFs.Add of the plugin's archive
Extract(c) ==
    /\ calls[c].pc = "extract"
    /\ \E ok \in BOOLEAN :
         LET call == calls[c]
             path == PathFor(call.pluginID)
             e == Ev("pluginFs.Add", call.pluginID, call.archive.Version, path,
                     <<>>, ok)
             logged == [call EXCEPT !.log = Append(call.log, e)]
             deps == call.archive.Dependencies
         IN  /\ disk' = IF ok THEN fsAdd(disk, call.archive, call.pluginID) ELSE disk
             /\ calls' = [calls EXCEPT ![c] =
                   IF ~ok THEN Return(logged, ErrFs)
                   ELSE [logged EXCEPT !.pathsToScan = InitPathsToScan(path),
                                       !.extracted = Extracted(path, deps),
                                       !.deps = deps,
                                       !.archive = NoArchive,
                                       !.pc = IF deps = <<>> THEN "load"
                                              ELSE "dep_fetch"]]
    /\ UNCHANGED registry

\* Add: GetPluginArchive of the next dependency
DepFetch(c) ==
    /\ calls[c].pc = "dep_fetch"
    /\ LET dep == Head(calls[c].deps)
       IN \E ok \in BOOLEAN, d \in Archives(dep.ID) \cup {NoArchive} :
         LET call == calls[c]
             e == Ev("GetPluginArchive", dep.ID, dep.Version, NoPath, <<>>, ok)
             logged == [call EXCEPT !.log = Append(call.log, e), !.archive = d]
         IN  /\ ok <=> d # NoArchive
             /\ calls' = [calls EXCEPT ![c] =
                   IF ~ok THEN Return(logged, ErrDepDownload(dep.ID))
                   ELSE [logged EXCEPT !.pc = "dep_extract"]]
    /\ UNCHANGED <<registry, disk>>

\* Add: pluginFs.Add of the dependency's archive; its own dependencies are
\* not looked at
DepExtract(c) ==
    /\ calls[c].pc = "dep_extract"
    /\ \E ok \in BOOLEAN :
         LET call == calls[c]
             dep == Head(call.deps)
             path == PathFor(dep.ID)
             e == Ev("pluginFs.Add", dep.ID, call.archive.Version, path, <<>>, ok)
             logged == [call EXCEPT !.log = Append(call.log, e)]
             rest == RemainingDeps(Tail(call.deps), call.archive)
         IN  /\ disk' = IF ok THEN fsAdd(disk, call.archive, dep.ID) ELSE disk
             /\ calls' = [calls EXCEPT ![c] =
                   IF ~ok THEN Return(logged, ErrFs)
                   ELSE [logged EXCEPT !.pathsToScan = AddPathToScan(call.pathsToScan, path),
                                       !.deps = rest,
                                       !.archive = NoArchive,
                                       !.pc = IF rest = <<>> THEN "load"
                                              ELSE "dep_fetch"]]
    /\ UNCHANGED registry

\* Add: loadPlugins of every collected path, as external plugins; the loader
\* reads the manifests under the paths
Load(c) ==
    /\ calls[c].pc = "load"
    /\ \E ok \in BOOLEAN :
         LET call == calls[c]
             e == Ev("loadPlugins", LoadClass, EmptyString, NoPath,
                     call.pathsToScan, ok)
             logged == [call EXCEPT !.log = Append(call.log, e)]
             found == loadPlugins(disk, LoadClass, call.pathsToScan)
         IN  calls' = [calls EXCEPT ![c] =
                 IF ~ok THEN Return(logged, ErrLoad)
                 ELSE IF found = <<>> THEN Return(logged, Nil)
                 ELSE [logged EXCEPT !.loaded = found, !.pc = "register"]]
    /\ UNCHANGED <<registry, disk>>

\* Add: the loader registers the next plugin it has loaded; Add returns after
\* the last one
Register(c) ==
    /\ calls[c].pc = "register"
    /\ LET call == calls[c]
           rest == Tail(call.loaded)
       IN  /\ registry' = register(registry, Head(call.loaded))
           /\ calls' = [calls EXCEPT ![c] =
                 IF rest = <<>> THEN Return([call EXCEPT !.loaded = rest], Nil)
                 ELSE [call EXCEPT !.loaded = rest]]
    /\ UNCHANGED disk

\* the caller has taken the result of its call
Finish(c) ==
    /\ calls[c].pc = "done"
    /\ calls' = [calls EXCEPT ![c] = IdleCall]
    /\ UNCHANGED <<registry, disk>>

(***************************************************************************)
(* Initial states: the core plugin is registered; each external plugin is   *)
(* absent, or registered at some version with its directory on disk.  The   *)
(* manifest of an installed plugin may name no version.                    *)
(***************************************************************************)
CorePlugins == {NewPlugin(i, <<"1.0.0">>, CoreDir(i), "core") : i \in CoreIDs}

InstalledChoices(pluginID, dirs) ==
    {{}} \cup {{NewPlugin(pluginID, v, d, "external")} : v \in ConcreteVersions, d \in dirs}

DiskOf(reg) ==
    [d \in Dirs |-> IF \E e \in reg : e.PluginDir = d
                    THEN LET e == CHOOSE x \in reg : x.PluginDir = d
                         IN  [ID |-> e.ID, Version |-> e.Version]
                    ELSE NoDir]

Unversioned(pluginID) == NewPlugin(pluginID, EmptyString, PathFor(pluginID), "external")

Init ==
    /\ \E ps \in InstalledChoices("p", InitDirs("p")) \cup {{Unversioned("p")}},
          ds \in InstalledChoices("d", {PathFor("d")}) :
          /\ registry = CorePlugins \cup ps \cup ds
          /\ disk = DiskOf(CorePlugins \cup ps \cup ds)
    /\ calls = [c \in Callers |-> IdleCall]

(***************************************************************************)
(* Spec: calls are made one after the other, by one caller.  The caller     *)
(* installs, updates and removes the core plugin and plugin p; plugin d is  *)
(* the dependency that the archives of p declare.                          *)
(***************************************************************************)
CallIDs == CoreIDs \cup {"p"}

\* the archives of Spec and ConcSpec declare fewer than MaxDeps dependencies,
\* among p and d
SeqDepIDs == {"p", "d"}
SeqArchive(a) ==
    /\ Len(a.Dependencies) < MaxDeps
    /\ \A k \in 1..Len(a.Dependencies) : a.Dependencies[k].ID \in SeqDepIDs

Next ==
    \/ \E pluginID \in CallIDs, version \in Tokens : AddStart("c1", pluginID, version)
    \/ \E pluginID \in CallIDs : RemoveStart("c1", pluginID)
    \/ AddDlOpts("c1")
    \/ AddRemove("c1")
    \/ Unregister("c1")
    \/ FsRemove("c1")
    \/ Fetch("c1") /\ SeqArchive(calls'["c1"].archive)
    \/ Extract("c1")
    \/ DepFetch("c1") /\ SeqArchive(calls'["c1"].archive)
    \/ DepExtract("c1")
    \/ Load("c1")
    \/ Register("c1")
    \/ Finish("c1")

Spec == Init /\ [][Next]_vars

(***************************************************************************)
(* ConcSpec: two callers, each making one call on plugin p; the steps of    *)
(* the two calls interleave (store.go takes no lock around Add or Remove).  *)
(* At the start p is absent or installed at "1.0.0" under the plugins root, *)
(* and c1 names the caller whose call starts first.                        *)
(***************************************************************************)
ConcVersions == {EmptyString, <<"2.0.0">>}

ConcInit ==
    /\ \E ps \in {{}, {NewPlugin("p", <<"1.0.0">>, PathFor("p"), "external")}} :
          /\ registry = CorePlugins \cup ps
          /\ disk = DiskOf(CorePlugins \cup ps)
    /\ calls = [c \in Callers |-> IdleCall]

StartsInOrder(c) == c = "c1" \/ calls["c1"].pc # "idle"

ConcNext ==
    \E c \in Callers :
        \/ \E version \in ConcVersions : StartsInOrder(c) /\ AddStart(c, "p", version)
        \/ StartsInOrder(c) /\ RemoveStart(c, "p")
        \/ AddDlOpts(c)
        \/ AddRemove(c)
        \/ Unregister(c)
        \/ FsRemove(c)
        \/ Fetch(c) /\ SeqArchive(calls'[c].archive)
        \/ Extract(c)
        \/ DepFetch(c) /\ SeqArchive(calls'[c].archive)
        \/ DepExtract(c)
        \/ Load(c)
        \/ Register(c)

ConcSpec == ConcInit /\ [][ConcNext]_vars

(***************************************************************************)
(* DepSpec: calls on plugin p made one after the other, with archives that  *)
(* declare up to MaxDeps dependencies among all the external plugins, in    *)
(* any order and with repetitions.  At the start p is absent or installed   *)
(* at "1.0.0" under the plugins root and no dependency is installed; the    *)
(* archives of the dependencies declare no dependencies themselves (Spec    *)
(* has those).                                                             *)
(***************************************************************************)
DepNext ==
    \/ \E version \in ConcVersions : AddStart("c1", "p", version)
    \/ RemoveStart("c1", "p")
    \/ AddDlOpts("c1")
    \/ AddRemove("c1")
    \/ Unregister("c1")
    \/ FsRemove("c1")
    \/ Fetch("c1")
    \/ Extract("c1")
    \/ DepFetch("c1") /\ calls'["c1"].archive.Dependencies = <<>>
    \/ DepExtract("c1")
    \/ Load("c1")
    \/ Register("c1")
    \/ Finish("c1")

DepSpec == ConcInit /\ [][DepNext]_vars

(***************************************************************************)
(* Properties.                                                             *)
(***************************************************************************)
HasEv(log, names) == \E i \in 1..Len(log) : log[i].ev \in names
FetchEvs == {"GetPluginArchive", "GetPluginArchiveByURL"}
RepoEvs == FetchEvs \cup {"GetPluginDownloadOptions"}
MutationEvs == {"unregisterAndStop", "pluginFs.Remove", "pluginFs.Add", "loadPlugins"}
LastEv(log) == log[Len(log)]

\* the call is on a core plugin that the registry holds, not decommissioned
OnCorePlugin(c) ==
    /\ calls[c].pc # "idle"
    /\ plugin(registry, calls[c].pluginID) # NoPlugin
    /\ ~IsExternalPlugin(plugin(registry, calls[c].pluginID))

\* the call has made no call that changes the registry or the filesystem,
\* and none to the repository
NothingDone(c) == ~HasEv(calls[c].log, MutationEvs \cup RepoEvs)

\* C1, as stated: for every core plugin P held non-decommissioned in the
\* registry and for every version string v, Add(P.ID, v) returns
\* ErrInstallCorePlugin and changes neither registry nor filesystem.
C1_CoreAddAnyVersion ==
    \A c \in Callers :
        (calls[c].op = "Add" /\ OnCorePlugin(c)) =>
            /\ calls[c].pc = "done"
            /\ calls[c].result = ErrInstallCorePlugin
            /\ NothingDone(c)

\* C1, amended: for every core plugin P held non-decommissioned in the
\* registry, Add(P.ID, v) returns ErrInstallCorePlugin when v is empty or a
\* valid version expression and ErrInvalidPluginVersionFormat for any other
\* v; in both cases it makes no unregister, directory deletion, extraction,
\* loader or repository call.
C1_CoreAddRefused ==
    \A c \in Callers :
        (calls[c].op = "Add" /\ OnCorePlugin(c)) =>
            /\ calls[c].pc = "done"
            /\ calls[c].result =
                   IF calls[c].version = EmptyString \/ isSemVerExpr(calls[c].version)
                   THEN ErrInstallCorePlugin
                   ELSE ErrInvalidPluginVersionFormat
            /\ NothingDone(c)

C1_Witness ==
    \E c \in Callers :
        /\ calls[c].op = "Add" /\ OnCorePlugin(c)
        /\ calls[c].version \in ConcreteVersions
        /\ calls[c].result = ErrInstallCorePlugin

\* the plugin directory, made relative to the plugins root, begins with a
\* parent-directory segment
EscapesRoot(dir) ==
    LET path == Rel(PluginsPath, dir)
    IN  ~path.err /\ path.segs[1] = ".."

\* C2: Remove of an installed external plugin whose directory, relative to
\* the plugins root, begins with ".." (alone or followed by more segments)
\* returns ErrUninstallOutsideOfPluginDir without unregistering the plugin or
\* deleting a directory.
C2_OutsideRootRefused ==
    \A c \in Callers :
        (/\ calls[c].op = "Remove"
         /\ calls[c].rmPlugin # NoPlugin
         /\ IsExternalPlugin(calls[c].rmPlugin)
         /\ EscapesRoot(calls[c].rmPlugin.PluginDir)) =>
            /\ calls[c].pc = "done"
            /\ calls[c].result = ErrUninstallOutsideOfPluginDir
            /\ ~HasEv(calls[c].log, {"unregisterAndStop", "pluginFs.Remove"})

\* the call is an Add that found the plugin installed (the update path)
IsUpdate(c) == calls[c].op = "Add" /\ calls[c].plugin # NoPlugin

\* the call ended on the failed fetch of the plugin's own archive
PrimaryFetchFailed(c) ==
    /\ calls[c].pc = "done"
    /\ calls[c].log # <<>>
    /\ LastEv(calls[c].log).ev \in FetchEvs
    /\ ~LastEv(calls[c].log).ok
    /\ ~HasEv(calls[c].log, {"pluginFs.Add"})

\* C3: on an update the existing installation is unregistered and its
\* directory deleted before any archive is fetched; when that fetch fails,
\* Add returns the fetch error and the plugin has no registry entry and no
\* directory left.
C3_UpdateRemovesFirst ==
    \A c \in Callers :
        IsUpdate(c) =>
            /\ \A i \in 1..Len(calls[c].log) :
                   calls[c].log[i].ev \in FetchEvs =>
                       /\ \E j \in 1..(i - 1) :
                              /\ calls[c].log[j].ev = "unregisterAndStop"
                              /\ calls[c].log[j].ok
                       /\ \E j \in 1..(i - 1) :
                              /\ calls[c].log[j].ev = "pluginFs.Remove"
                              /\ calls[c].log[j].ok
            /\ PrimaryFetchFailed(c) =>
                   /\ calls[c].result = ErrRepo
                   /\ registryPlugin(registry, calls[c].pluginID) = NoPlugin
                   /\ disk[calls[c].plugin.PluginDir] = NoDir
                   /\ disk[PathFor(calls[c].pluginID)] = NoDir

C3_Witness ==
    \E c \in Callers :
        /\ IsUpdate(c) /\ PrimaryFetchFailed(c)
        /\ calls[c].dlOpts.Version \in ConcreteVersions
        /\ calls[c].dlOpts.Version # calls[c].plugin.Version

\* the request names the installed version, or the repository resolved it to
\* the installed version
AsksInstalledVersion(c) ==
    /\ IsUpdate(c)
    /\ IsExternalPlugin(calls[c].plugin)
    /\ \/ calls[c].version = calls[c].plugin.Version
       \/ /\ \E i \in 1..Len(calls[c].log) :
                 calls[c].log[i].ev = "GetPluginDownloadOptions" /\ calls[c].log[i].ok
          /\ calls[c].dlOpts.Version = calls[c].plugin.Version

\* C4: Add of an external plugin installed at version V fails with
\* DuplicateError (plugin id, existing directory) when the requested version
\* is V or the repository resolves the request to V; the plugin stays
\* registered, its directory stays, and nothing is removed, fetched,
\* extracted or loaded.
C4_DuplicateRefused ==
    \A c \in Callers :
        AsksInstalledVersion(c) =>
            /\ calls[c].pc = "done"
            /\ calls[c].result =
                   DuplicateError(calls[c].plugin.ID, calls[c].plugin.PluginDir)
            /\ ~HasEv(calls[c].log, MutationEvs \cup FetchEvs)
            /\ calls[c].plugin \in registry
            /\ disk[calls[c].plugin.PluginDir] # NoDir

C4_Witness ==
    \E c \in Callers :
        /\ AsksInstalledVersion(c)
        /\ calls[c].version # calls[c].plugin.Version
        /\ calls[c].result.err = "DuplicateError"

\* C6: two concurrent calls on the same plugin do not interleave: while a
\* call that has extracted an archive into a directory is still in flight,
\* no other call deletes that directory.
C6_NoDeleteUnderExtraction ==
    \A c \in Callers :
        calls[c].pc \in {"dep_fetch", "dep_extract", "load", "register"} =>
            \A i \in 1..Len(calls[c].pathsToScan) :
                disk[calls[c].pathsToScan[i]] # NoDir

\* C7: Remove of a core plugin fails with ErrUninstallCorePlugin; the plugin
\* is not unregistered and no directory is deleted.
C7_CoreRemoveRefused ==
    \A c \in Callers :
        (calls[c].op = "Remove" /\ OnCorePlugin(c)) =>
            /\ calls[c].pc = "done"
            /\ calls[c].result = ErrUninstallCorePlugin
            /\ NothingDone(c)

C7_Witness ==
    \E c \in Callers :
        /\ calls[c].op = "Remove" /\ OnCorePlugin(c)
        /\ calls[c].result = ErrUninstallCorePlugin

\* C8: in Remove the directory is deleted only right after unregisterAndStop
\* of the same plugin has succeeded; when unregisterAndStop fails, Remove
\* returns that error and the directory deletion is not invoked.
C8_UnregisterBeforeDelete ==
    \A c \in Callers :
        \A i \in 1..Len(calls[c].log) :
            /\ calls[c].log[i].ev = "pluginFs.Remove" =>
                   /\ i > 1
                   /\ calls[c].log[i - 1].ev = "unregisterAndStop"
                   /\ calls[c].log[i - 1].ok
                   /\ calls[c].log[i - 1].id = calls[c].log[i].id
            /\ (calls[c].log[i].ev = "unregisterAndStop" /\ ~calls[c].log[i].ok) =>
                   /\ i = Len(calls[c].log)
                   /\ calls[c].pc = "done"
                   /\ calls[c].result = ErrUnregister

C8_Witness ==
    \E c \in Callers :
        /\ calls[c].op = "Remove"
        /\ calls[c].pc = "done"
        /\ HasEv(calls[c].log, {"pluginFs.Remove"})

\* the Add ran to its end with every collaborator call succeeding, on a
\* plugin id for which the registry keeps no decommissioned entry
AddAllSucceeded(c) ==
    /\ calls[c].op = "Add"
    /\ calls[c].pc = "done"
    /\ HasEv(calls[c].log, {"loadPlugins"})
    /\ \A i \in 1..Len(calls[c].log) : calls[c].log[i].ok
    /\ ~\E e \in registry : e.ID = calls[c].pluginID /\ IsDecommissioned(e)

\* the version of the archive the call extracted for the plugin itself
ExtractedVersion(c) ==
    LET log == calls[c].log
        i == CHOOSE k \in 1..Len(log) :
                 /\ log[k].ev = "pluginFs.Add"
                 /\ \A j \in 1..(k - 1) : log[j].ev # "pluginFs.Add"
    IN  log[i].version

\* C9: when every collaborator call succeeds, Add of an external plugin that
\* the registry does not hold returns success, the registry then holds
\* exactly one non-decommissioned entry for the id, and Plugin(id) returns
\* (dto, true) with the version of the extracted archive; the same holds
\* after an update, whose old entry is gone.
C9_InstallRegistersOnce ==
    \A c \in Callers :
        AddAllSucceeded(c) =>
            /\ calls[c].result = Nil
            /\ {e \in registry : e.ID = calls[c].pluginID /\ ~IsDecommissioned(e)}
                  = {NewPlugin(calls[c].pluginID, ExtractedVersion(c),
                               PathFor(calls[c].pluginID), "external")}
            /\ Plugin(registry, calls[c].pluginID).found
            /\ Plugin(registry, calls[c].pluginID).dto.Version = ExtractedVersion(c)

C9_Witness ==
    \E c \in Callers :
        /\ AddAllSucceeded(c)
        /\ IsUpdate(c)
        /\ ExtractedVersion(c) # calls[c].plugin.Version
        /\ Len(calls[c].pathsToScan) > 1

\* the version strings that are a concrete version or a valid constraint
\* expression: comparisons (a version, or an operator and a version) joined
\* by "," and "||"
Comparisons == ConcreteVersions \cup {<<">=", v>> : v \in Versions}
RECURSIVE ValidExprs(_)
ValidExprs(n) ==
    IF n = 0 THEN Comparisons
    ELSE LET E == ValidExprs(n - 1)
         IN  E \cup {a \o <<sep>> \o b : a \in E, b \in Comparisons, sep \in {",", "||"}}

\* a comparison has a lexeme at least and every further one adds two: these
\* are all the valid expressions of up to MaxTokenLen lexemes, and more
ValidVersionStrings == ValidExprs((MaxTokenLen - 1) \div 2)

\* C10: Add with a non-empty version string that is neither a concrete
\* version nor a valid constraint expression returns
\* ErrInvalidPluginVersionFormat without any registry, repository, filesystem
\* or loader call; Add with the empty version string never returns it.
C10_InvalidVersionRefused ==
    \A c \in Callers :
        calls[c].op = "Add" =>
            /\ (/\ calls[c].version # EmptyString
                /\ calls[c].version \notin ValidVersionStrings) =>
                   /\ calls[c].pc = "done"
                   /\ calls[c].result = ErrInvalidPluginVersionFormat
                   /\ calls[c].log = <<>>
            /\ calls[c].version = EmptyString =>
                   calls[c].result # ErrInvalidPluginVersionFormat

C10_Witness ==
    \E c \in Callers :
        /\ calls[c].op = "Add"
        /\ calls[c].result = ErrInvalidPluginVersionFormat
        /\ Len(calls[c].version) = MaxTokenLen
        /\ calls[c].version[1] \in Versions

Count(log, names) == Cardinality({i \in 1..Len(log) : log[i].ev \in names})

\* the plugin's own archive has been extracted before event i of the log
PrimaryExtractedBefore(log, i) ==
    \E j \in 1..(i - 1) : log[j].ev = "pluginFs.Add" /\ log[j].ok

\* event i of the log is the failed download or the failed extraction of a
\* dependency
DepFailureAt(log, i) ==
    /\ log[i].ev \in {"GetPluginArchive", "pluginFs.Add"}
    /\ ~log[i].ok
    /\ PrimaryExtractedBefore(log, i)

\* C11: when the download or the extraction of a declared dependency fails,
\* Add stops there (no further fetch, no load), returns an error that names
\* the failed dependency, and leaves the directories extracted so far.
C11_DepFailureNamesDep ==
    \A c \in Callers :
        \A i \in 1..Len(calls[c].log) :
            DepFailureAt(calls[c].log, i) =>
                /\ i = Len(calls[c].log)
                /\ calls[c].pc = "done"
                /\ calls[c].result.PluginID = calls[c].log[i].id
                /\ ~HasEv(calls[c].log, {"loadPlugins"})
                /\ \A j \in 1..(i - 1) :
                       calls[c].log[j].ev = "pluginFs.Add" =>
                           disk[calls[c].log[j].dir] # NoDir

\* the registry has no entry for the id, or a decommissioned one
NotInstalled(reg, pluginID) ==
    \/ registryPlugin(reg, pluginID) = NoPlugin
    \/ IsDecommissioned(registryPlugin(reg, pluginID))

\* C12: Remove(id) returns ErrPluginNotInstalled when the registry has no
\* entry for id or a decommissioned one, without unregistering or deleting
\* anything; a successful Remove leaves no entry, so that the next Remove of
\* the same id returns ErrPluginNotInstalled.
C12_RemoveNotInstalled ==
    /\ [][\A c \in Callers :
            (/\ calls[c].pc = "idle"
             /\ calls'[c].op = "Remove"
             /\ NotInstalled(registry, calls'[c].pluginID)) =>
                /\ calls'[c].pc = "done"
                /\ calls'[c].result = ErrPluginNotInstalled
                /\ ~HasEv(calls'[c].log, MutationEvs)
                /\ registry' = registry
                /\ disk' = disk]_vars
    /\ [](\A c \in Callers :
            (calls[c].op = "Remove" /\ calls[c].result = Nil) =>
                NotInstalled(registry, calls[c].pluginID))

C12_Witness ==
    \E c \in Callers :
        /\ calls[c].op = "Remove"
        /\ calls[c].result = ErrPluginNotInstalled
        /\ registryPlugin(registry, calls[c].pluginID) # NoPlugin
        /\ IsDecommissioned(registryPlugin(registry, calls[c].pluginID))

\* C13: Plugins() without a type returns the DTO of exactly the
\* non-decommissioned plugins, and Plugins(t1..tn) the DTO of exactly the
\* non-decommissioned plugins whose type is among t1..tn.
C13_PluginsByType ==
    /\ Plugins(registry, {}) = {ToDTO(p) : p \in {q \in registry : ~q.Decommissioned}}
    /\ \A ts \in SUBSET PluginTypes :
           ts # {} =>
               Plugins(registry, ts) =
                   {ToDTO(p) : p \in {q \in registry : ~q.Decommissioned /\ q.Type \in ts}}

C13_Witness ==
    /\ \E e \in registry : e.Decommissioned
    /\ Cardinality(Plugins(registry, {})) >= 2
    /\ Plugins(registry, {"app"}) # {}
    /\ Plugins(registry, {"panel"}) = {}

\* Add on an installed plugin: the repository has answered the request for
\* download options with neither a URL nor a version
ResolvedNothing(c) ==
    /\ IsUpdate(c)
    /\ calls[c].dlOpts = NoDlOpts
    /\ \E i \in 1..Len(calls[c].log) :
           calls[c].log[i].ev = "GetPluginDownloadOptions" /\ calls[c].log[i].ok

\* Add has returned result r and the installation is as it was: nothing was
\* unregistered, deleted, fetched, extracted or loaded
RefusedUntouched(c, r) ==
    /\ calls[c].pc = "done"
    /\ calls[c].result = r
    /\ LastEv(calls[c].log).ev = "GetPluginDownloadOptions"
    /\ ~HasEv(calls[c].log, MutationEvs \cup FetchEvs)
    /\ calls[c].plugin \in registry
    /\ disk[calls[c].plugin.PluginDir] # NoDir

\* C15: for every installed external plugin, when the resolution returns
\* neither a URL nor a version, Add returns the resolution error naming the
\* plugin and leaves the installation untouched.
C15_NoOptionsRefused ==
    \A c \in Callers :
        ResolvedNothing(c) =>
            RefusedUntouched(c, ErrNoUpdateOptions(calls[c].pluginID))

\* What Add does there: the resolution error is returned when the installed
\* version is not the empty string; when it is the empty string, the empty
\* resolved version equals it and the duplicate check, which comes first,
\* returns the duplicate error. In both cases the installation is untouched.
NoOptionsOutcome ==
    \A c \in Callers :
        ResolvedNothing(c) =>
            IF calls[c].plugin.Version # EmptyString
            THEN /\ RefusedUntouched(c, ErrNoUpdateOptions(calls[c].pluginID))
                 /\ calls[c].result.err = "could not determine update options"
                 /\ calls[c].result.PluginID = calls[c].pluginID
            ELSE RefusedUntouched(c, DuplicateError(calls[c].pluginID,
                                                    calls[c].plugin.PluginDir))

\* the archive fetches of a log, and those made for the plugin itself, which
\* come before the first extraction
AllFetches(log) == {i \in 1..Len(log) : log[i].ev \in FetchEvs}
PrimaryFetches(log) ==
    {i \in AllFetches(log) :
        ~\E j \in 1..(i - 1) : log[j].ev = "pluginFs.Add"}

\* the update has removed the existing installation
RemovedOK(c) ==
    \E i \in 1..Len(calls[c].log) :
        calls[c].log[i].ev = "pluginFs.Remove" /\ calls[c].log[i].ok

\* C16: on the update path Add issues exactly one fetch of the plugin's
\* archive, by URL iff the repository supplied a URL, else by (id, resolved
\* version); on the fresh path it fetches by (id, requested version) and
\* never asks for download options.  The fetch is issued once the existing
\* installation is removed (update) or the lookup found nothing (fresh), and
\* by no Add that returned before that point.
C16_OnePrimaryFetch ==
    \A c \in Callers :
        calls[c].op = "Add" =>
            LET call == calls[c]
                own == PrimaryFetches(call.log)
            IN  /\ Cardinality(own) <= 1
                /\ IF IsUpdate(c)
                   THEN /\ Cardinality(own) = 1 <=>
                              (RemovedOK(c) /\ call.pc # "fetch")
                        /\ \A i \in own :
                              /\ call.log[i - 1].ev = "pluginFs.Remove"
                              /\ \E j \in 1..(i - 1) :
                                    /\ call.log[j].ev = "GetPluginDownloadOptions"
                                    /\ call.log[j].ok
                              /\ IF call.dlOpts.PluginZipURL # ""
                                 THEN call.log[i].ev = "GetPluginArchiveByURL"
                                 ELSE /\ call.log[i].ev = "GetPluginArchive"
                                      /\ call.log[i].id = call.pluginID
                                      /\ call.log[i].version = call.dlOpts.Version
                   ELSE /\ Cardinality(own) = 1 <=>
                              (/\ AddValidate(call.version) = NoResult
                               /\ call.pc # "fetch")
                        /\ \A i \in own :
                              /\ i = 2
                              /\ call.log[i].ev = "GetPluginArchive"
                              /\ call.log[i].id = call.pluginID
                              /\ call.log[i].version = call.version
                        /\ ~HasEv(call.log, {"GetPluginDownloadOptions"})

\* an update whose options gave no URL and a version other than the
\* requested token, after its fetch
C16_Witness ==
    \E c \in Callers :
        /\ IsUpdate(c)
        /\ calls[c].dlOpts.PluginZipURL = ""
        /\ calls[c].dlOpts.Version # calls[c].version
        /\ calls[c].version # EmptyString
        /\ Cardinality(PrimaryFetches(calls[c].log)) = 1

IsFsAdd(e) == e.ev = "pluginFs.Add"
Loads(log) == {i \in 1..Len(log) : log[i].ev = "loadPlugins"}

\* event i of caller c's log is the one call of the loader, made after the
\* plugin's archive and every declared dependency were extracted, for
\* external plugins, with the extraction paths in order
LoadedAsRequired(c, i) ==
    LET call == calls[c]
        adds == SelectSeq(SubSeq(call.log, 1, i - 1), IsFsAdd)
        deps == call.extracted.Dependencies
    IN  /\ i = Len(call.log)
        /\ \A j \in 1..(i - 1) : call.log[j].ok
        /\ call.log[i].id = "external"
        /\ Len(adds) = 1 + Len(deps)
        /\ adds[1].id = call.pluginID
        /\ adds[1].dir = call.extracted.Path
        /\ \A k \in 1..Len(deps) : adds[k + 1].id = deps[k].ID
        /\ call.log[i].paths = [k \in 1..Len(adds) |-> adds[k].dir]
        /\ ~call.log[i].ok =>
              /\ call.pc = "done"
              /\ call.result = ErrLoad
              /\ \A k \in 1..Len(adds) : disk[adds[k].dir] # NoDir

\* C17: in every Add the loader is called at most once, only after the
\* plugin's archive and every declared dependency were extracted, as
\* external, with the plugin's extraction path first and then each
\* dependency's in declaration order; when the load fails Add returns that
\* error and no extracted directory is removed.
C17_LoadOnceAfterAll ==
    \A c \in Callers :
        calls[c].op = "Add" =>
            /\ Cardinality(Loads(calls[c].log)) <= 1
            /\ \A i \in Loads(calls[c].log) : LoadedAsRequired(c, i)
            /\ (calls[c].pc = "done" /\ calls[c].result = Nil) =>
                   Loads(calls[c].log) # {}

\* a failed load of a plugin and two different dependencies, declared in the
\* order e, d
C17_Witness ==
    \E c \in Callers :
        /\ calls[c].pc = "done"
        /\ calls[c].result = ErrLoad
        /\ LastEv(calls[c].log).paths =
               <<PathFor(calls[c].pluginID), PathFor("e"), PathFor("d")>>
        /\ \A k \in 1..3 : disk[LastEv(calls[c].log).paths[k]] # NoDir

\* C18: Add resolves dependencies one level deep and terminates: an Add whose
\* archive declares n dependencies makes at most 1 + n archive fetches and
\* 1 + n extractions, exactly as many when all succeed, whatever the
\* dependencies' archives declare themselves, and a bounded number of calls
\* in all.
C18_OneLevelDeps ==
    \A c \in Callers :
        calls[c].op = "Add" =>
            LET n == Len(calls[c].extracted.Dependencies)
                fetches == Cardinality(AllFetches(calls[c].log))
                adds == Count(calls[c].log, {"pluginFs.Add"})
            IN  /\ fetches <= 1 + n
                /\ adds <= 1 + n
                /\ Len(calls[c].deps) <= n
                /\ Len(calls[c].log) <= 2 * n + 8
                /\ (calls[c].plugin = NoPlugin /\ calls[c].pc = "done"
                        /\ calls[c].result = Nil) =>
                       /\ fetches = 1 + n
                       /\ adds = 1 + n
                       /\ Len(calls[c].log) = 2 * n + 4

\* a fresh install of a plugin whose only dependency has been fetched, the
\* dependency's archive declaring the plugin itself in turn
C18_Witness ==
    \E c \in Callers :
        /\ calls[c].op = "Add"
        /\ calls[c].plugin = NoPlugin
        /\ calls[c].pc = "dep_extract"
        /\ Len(calls[c].extracted.Dependencies) = Cardinality(AllFetches(calls[c].log)) - 1
        /\ calls[c].archive.Dependencies # <<>>
        /\ calls[c].archive.Dependencies[1].ID = calls[c].pluginID

\* decommissioned entries, core and external
DecommissionedEntries ==
    {[NewPlugin(i, v, PathFor(i), cl) EXCEPT !.Decommissioned = TRUE] :
        i \in IDs, v \in ConcreteVersions, cl \in {"core", "external"}}

\* an Add that found no plugin makes no core or duplicate refusal, asks for no
\* download options, removes nothing, and fetches by (id, requested version),
\* then extracts and loads
FreshPath(c) ==
    LET call == calls[c]
    IN  /\ call.pc \in {"fetch", "extract", "dep_fetch", "dep_extract", "load",
                       "register", "done"}
        /\ call.result.err \notin {"ErrInstallCorePlugin", "DuplicateError"}
        /\ ~HasEv(call.log, {"GetPluginDownloadOptions", "unregisterAndStop",
                             "pluginFs.Remove"})
        /\ call.log[1] = LookupEv(call.pluginID)
        /\ Len(call.log) >= 2 =>
              /\ call.log[2].ev = "GetPluginArchive"
              /\ call.log[2].id = call.pluginID
              /\ call.log[2].version = call.version
        /\ (Len(call.log) >= 3 /\ call.log[2].ok) =>
              /\ call.log[3].ev = "pluginFs.Add"
              /\ call.log[3].id = call.pluginID
        /\ (call.pc = "done" /\ \A i \in 1..(Len(call.log) - 1) : call.log[i].ok) =>
              LastEv(call.log).ev = "loadPlugins" \/ ~LastEv(call.log).ok

\* C19: Add treats a decommissioned entry, core or external, as absent: it
\* makes neither the core check nor the duplicate check nor a Remove and goes
\* straight to fetching by (id, requested version), extracting and loading.
C19_DecommissionedIsAbsent ==
    /\ [][\A c \in Callers :
            (/\ calls[c].pc = "idle"
             /\ calls'[c].op = "Add"
             /\ AddValidate(calls'[c].version) = NoResult
             /\ registryPlugin(registry, calls'[c].pluginID) # NoPlugin
             /\ registryPlugin(registry, calls'[c].pluginID).Decommissioned) =>
                /\ calls'[c].pc = "fetch"
                /\ calls'[c].plugin = NoPlugin
                /\ calls'[c].log = <<LookupEv(calls'[c].pluginID)>>]_vars
    /\ [](/\ \A e \in DecommissionedEntries : plugin({e}, e.ID) = NoPlugin
          /\ \A c \in Callers :
                (/\ calls[c].op = "Add"
                 /\ calls[c].plugin = NoPlugin
                 /\ AddValidate(calls[c].version) = NoResult) => FreshPath(c))

\* an Add of the version of a decommissioned entry that got as far as the
\* extraction
C19_Witness ==
    \E c \in Callers :
        /\ calls[c].op = "Add"
        /\ calls[c].plugin = NoPlugin
        /\ registryPlugin(registry, calls[c].pluginID) # NoPlugin
        /\ registryPlugin(registry, calls[c].pluginID).Decommissioned
        /\ registryPlugin(registry, calls[c].pluginID).Version = calls[c].version
        /\ HasEv(calls[c].log, {"pluginFs.Add"})

\* C20: when unregisterAndStop succeeded and the deletion of the directory
\* fails, Remove returns the deletion error at once, the plugin is
\* unregistered and stays so, and its directory is still on disk; inside an
\* update Add returns the same error and fetches no archive.
C20_DeleteFailureNotAtomic ==
    \A c \in Callers :
        \A i \in 1..Len(calls[c].log) :
            (calls[c].log[i].ev = "pluginFs.Remove" /\ ~calls[c].log[i].ok) =>
                /\ i = Len(calls[c].log)
                /\ calls[c].pc = "done"
                /\ calls[c].result = ErrFs
                /\ calls[c].log[i - 1].ev = "unregisterAndStop"
                /\ calls[c].log[i - 1].ok
                /\ registryPlugin(registry, calls[c].rmPlugin.ID) = NoPlugin
                /\ disk[calls[c].rmPlugin.PluginDir] # NoDir
                /\ calls[c].log[i].dir = calls[c].rmPlugin.PluginDir
                /\ ~HasEv(calls[c].log, FetchEvs \cup {"pluginFs.Add", "loadPlugins"})

\* an update stopped by the failed deletion
C20_Witness ==
    \E c \in Callers :
        /\ calls[c].op = "Add"
        /\ calls[c].pc = "done"
        /\ calls[c].result = ErrFs
        /\ LastEv(calls[c].log).ev = "pluginFs.Remove"
        /\ HasEv(calls[c].log, {"GetPluginDownloadOptions"})
        /\ registryPlugin(registry, calls[c].pluginID) = NoPlugin
        /\ disk[calls[c].plugin.PluginDir] # NoDir

====
